---- MODULE Spec2Model ----
(***************************************************************************)
(* life-stream: the append-only event log (tools/lib/events.ts), the sync  *)
(* utilities (tools/lib/sync.ts), the state derivation queries             *)
(* (tools/lib/query.ts) and the sync scripts that drive them.              *)
(*                                                                         *)
(* Representation.                                                         *)
(*  - A log file <dir>/<YYYY-MM>.jsonl is a sequence of lines.  A line is  *)
(*    either an event (a record: ts, type, source, data and, when given,   *)
(*    id) standing for its JSON.stringify text, or BadLine, a line whose   *)
(*    text JSON.parse rejects, or JsonNull, the line null, which           *)
(*    JSON.parse accepts and which has no properties.                      *)
(*  - A timestamp string is [clock, zone]: the date-time part, counted in  *)
(*    half hours since 2026-01-01T00:00, and the offset suffix after it    *)
(*    ("Z", "+01:00", or "" when the string carries no offset).  Strings   *)
(*    are compared as strings (date-time part first, then suffix); the     *)
(*    instant a string denotes is computed by Instant.                     *)
(*  - Event types, ids, sources and payload values are strings.            *)
(*  - A directory is named as the reader of events.ts finds it: "events",  *)
(*    and a service name for the directory of the service under the        *)
(*    synced/ the reader scans.  A service directory that sync.ts resolves *)
(*    anywhere else is named by its path.                                  *)
(***************************************************************************)
EXTENDS Integers, Sequences, FiniteSets, TLC

VARIABLES
    files,      \* files[dir][month]: the lines of <dir>/<month>.jsonl
    dirOrder,   \* the service directories of synced/, in readdir order
    now,        \* the wall clock: half hours since 2026-01-01T00:00Z
    tz,         \* the process timezone: half hours ahead of UTC
    ret,        \* what the last operation returned, or the error it rejected with
    calls,      \* calls[c]: the call or script run of process c, suspended at an await
    env         \* the environment of the processes: LIFE_DIR and the working directory

vars == <<files, dirOrder, now, tz, ret, calls, env>>

-----------------------------------------------------------------------------
(* Bounds *)

MaxLines == 3          \* lines stored over all files
MaxTicks == 1          \* half hours the clock advances

-----------------------------------------------------------------------------
(* Directories, files, timestamps *)

EVENTS_DIR == "events"
Services == {"strava", "fitbit"}
Dirs == {EVENTS_DIR} \cup Services

HalfHoursInJan == 31 * 48
StartOfClock == HalfHoursInJan - 2      \* 2026-01-31T23:00Z
OneHour == 60 \div 30

\* `${date.getFullYear()}-${String(date.getMonth() + 1).padStart(2, '0')}` of a
\* local wall-clock time (January and February 2026).
YearMonth(localTime) == IF localTime < HalfHoursInJan THEN "2026-01" ELSE "2026-02"
Months == {"2026-01", "2026-02"}
\* files.filter(f => f.endsWith('.jsonl')).sort()
SortedFiles == <<"2026-01", "2026-02">>

Undefined == "undefined"
BadLine == [text |-> "{not json"]
JsonNull == [json |-> "null"]

\* The instant (half hours since 2026-01-01T00:00Z) new Date(ts) denotes: an offset
\* suffix is subtracted, a string without offset is read as local time.
Instant(ts) ==
    CASE ts.zone = "Z" -> ts.clock
      [] ts.zone = "+01:00" -> ts.clock - OneHour
      [] OTHER -> ts.clock - tz

\* new Date().toISOString()
toISOString(instant) == [clock |-> instant, zone |-> "Z"]

\* Order of the offset suffixes as strings: the empty suffix is a proper prefix,
\* "+" sorts before "Z".
ZoneRank(z) == CASE z = "" -> 0 [] z = "+01:00" -> 1 [] OTHER -> 2

\* a.localeCompare(b) and the string comparison a < b of two timestamp strings:
\* the fixed-width date-time part decides, then the suffix.
localeCompare(a, b) ==
    IF a.clock # b.clock THEN (IF a.clock < b.clock THEN -1 ELSE 1)
    ELSE IF ZoneRank(a.zone) # ZoneRank(b.zone)
         THEN (IF ZoneRank(a.zone) < ZoneRank(b.zone) THEN -1 ELSE 1)
         ELSE 0

-----------------------------------------------------------------------------
(* JavaScript values *)

\* obj[f] of an object with optional fields
Get(obj, f) == IF f \in DOMAIN obj THEN obj[f] ELSE Undefined
\* the truthiness of a string or undefined
Truthy(v) == v # Undefined /\ v # ""
\* s.startsWith(p)
StartsWith(s, p) == Len(p) <= Len(s) /\ SubSeq(s, 1, Len(p)) = p
\* JSON.parse(line) succeeds
Parses(line) == "text" \notin DOMAIN line
\* The parsed value is an object: reading a property of it does not throw.
IsObject(value) == "json" \notin DOMAIN value

\* The payload fields that hold numbers; every other payload value is a string
\* or undefined.
NumberFields == {"duration_min"}
\* The object JSON.stringify writes for obj: a field that holds undefined is left
\* out.
DropUndefined(obj) ==
    [f \in {g \in DOMAIN obj : g \in NumberFields \/ obj[g] # Undefined} |-> obj[f]]
\* JSON.stringify(event): the line, as the value JSON.parse gives back for it
JSONstringify(event) ==
    LET top == [f \in DOMAIN event \ {"id"} |->
                   IF f = "data" THEN DropUndefined(event.data) ELSE event[f]]
    IN  IF Get(event, "id") # Undefined THEN top @@ [id |-> event.id] ELSE top

Last(s) == s[Len(s)]
Front(s) == SubSeq(s, 1, Len(s) - 1)

RECURSIVE SumLens(_, _)
SumLens(f, S) ==
    IF S = {} THEN 0
    ELSE LET x == CHOOSE y \in S : TRUE IN Len(f[x]) + SumLens(f, S \ {x})
RECURSIVE TotalLines(_, _)
TotalLines(fs, D) ==
    IF D = {} THEN 0
    ELSE LET d == CHOOSE y \in D : TRUE IN SumLens(fs[d], Months) + TotalLines(fs, D \ {d})

-----------------------------------------------------------------------------
(* The directories events.ts and sync.ts resolve *)

\* The repository root, which events.ts finds from the place of its own module.
ModuleRoot == "/repo"
\* A working directory that is not the repository root.
Elsewhere == "/home"

\* The environment of the documented set-up: LIFE_DIR names the repository root.
Deployed == [LIFE_DIR |-> ModuleRoot, cwd |-> Elsewhere]

\* getLifeDir() of events.ts
getLifeDir == IF Truthy(env.LIFE_DIR) THEN env.LIFE_DIR ELSE ModuleRoot
\* SYNCED_DIR of events.ts
SYNCED_DIR == getLifeDir \o "/synced"
\* getSyncedDir() of sync.ts
getSyncedDir ==
    IF Truthy(env.LIFE_DIR) THEN env.LIFE_DIR \o "/synced" ELSE env.cwd \o "/synced"

\* join(getSyncedDir(), source): the directory sync.ts reads and writes for a
\* service.
syncDir(source) ==
    IF getSyncedDir = SYNCED_DIR THEN source ELSE getSyncedDir \o "/" \o source

\* The service directories under the synced/ of the working directory.
WorkingDirs == {Elsewhere \o "/synced/" \o service : service \in Services}
Directories == Dirs \cup WorkingDirs

-----------------------------------------------------------------------------
(* events.ts: the reader *)

\* The filter tests of readEventsFromDir on one parsed event.  The tests
\* event.ts < startDate and event.ts > endDate compare the strings, in the order
\* localeCompare gives them.
PassesFilters(event, filters) ==
    /\ ~(Truthy(Get(filters, "eventType")) /\ ~StartsWith(event.type, Get(filters, "eventType")))
    /\ ~("startDate" \in DOMAIN filters /\ localeCompare(event.ts, filters.startDate) < 0)
    /\ ~("endDate" \in DOMAIN filters /\ localeCompare(event.ts, filters.endDate) > 0)
    /\ ~(Truthy(Get(filters, "source")) /\ event.source # Get(filters, "source"))
    /\ ~(Truthy(Get(filters, "id")) /\ Get(event, "id") # Get(filters, "id"))

\* The filter tests throw a TypeError inside the try: a property of null is read
\* by the first test whose filter is set, and startsWith is called on the type
\* of an object that has none.
FilterThrows(event, filters) ==
    IF ~IsObject(event)
    THEN \/ Truthy(Get(filters, "eventType"))
         \/ "startDate" \in DOMAIN filters
         \/ "endDate" \in DOMAIN filters
         \/ Truthy(Get(filters, "source"))
         \/ Truthy(Get(filters, "id"))
    ELSE Truthy(Get(filters, "eventType")) /\ "type" \notin DOMAIN event

\* The loop with the try around it: the first line that does not parse ends the
\* scan of the file.
RECURSIVE ScanLines_abort(_, _)
ScanLines_abort(lines, filters) ==
    IF lines = <<>> THEN <<>>
    ELSE IF ~Parses(Head(lines)) THEN <<>>
    ELSE IF PassesFilters(Head(lines), filters)
         THEN <<Head(lines)>> \o ScanLines_abort(Tail(lines), filters)
    ELSE ScanLines_abort(Tail(lines), filters)

\* The loop over the lines of one file: what a line throws inside the try (it
\* does not parse, or a filter test throws) is caught and the loop goes on with
\* the next line.
RECURSIVE ScanLines(_, _)
ScanLines(lines, filters) ==
    IF lines = <<>> THEN <<>>
    ELSE LET line == Head(lines)
             rest == ScanLines(Tail(lines), filters)
         IN  IF ~Parses(line) THEN rest
             ELSE IF FilterThrows(line, filters) THEN rest
             ELSE IF PassesFilters(line, filters) THEN <<line>> \o rest
             ELSE rest

RECURSIVE ScanFiles(_, _, _)
ScanFiles(dirFiles, names, filters) ==
    IF names = <<>> THEN <<>>
    ELSE ScanLines(dirFiles[Head(names)], filters) \o ScanFiles(dirFiles, Tail(names), filters)

\* readEventsFromDir that reads the first file only
readEventsFromDir_firstFile(fs, dir, filters) == ScanFiles(fs[dir], <<Head(SortedFiles)>>, filters)

\* readEventsFromDir(dir, events, filters): the events it pushes
readEventsFromDir(fs, dir, filters) == ScanFiles(fs[dir], SortedFiles, filters)

RECURSIVE ReadServices(_, _, _)
ReadServices(fs, order, filters) ==
    IF order = <<>> THEN <<>>
    ELSE readEventsFromDir(fs, Head(order), filters) \o ReadServices(fs, Tail(order), filters)

\* events.sort((a, b) => a.ts.localeCompare(b.ts)): a stable sort
RECURSIVE Insert(_, _)
Insert(sorted, e) ==
    IF sorted = <<>> THEN <<e>>
    ELSE IF localeCompare(Last(sorted).ts, e.ts) <= 0 THEN Append(sorted, e)
    ELSE Append(Insert(Front(sorted), e), Last(sorted))
RECURSIVE SortEvents(_)
SortEvents(events) ==
    IF events = <<>> THEN <<>>
    ELSE Insert(SortEvents(Front(events)), Last(events))

\* The events pushed by the reads of events/ and of the service directories.
Collected(fs, order, filters) ==
    readEventsFromDir(fs, EVENTS_DIR, filters) \o ReadServices(fs, order, filters)

\* The comparator a.ts.localeCompare(b.ts) reads a property of null: the sort of
\* two events or more throws when one of them is null.
SortThrows(events) ==
    Len(events) >= 2 /\ \E i \in 1..Len(events) : ~IsObject(events[i])

readEventsIn(fs, order, filters) == SortEvents(Collected(fs, order, filters))

readEvents(filters) == readEventsIn(files, dirOrder, filters)

NoFilters == [x \in {} |-> ""]

-----------------------------------------------------------------------------
(* events.ts: the writer *)

\* appendFile(filename, line)
appendFile(fs, dir, month, line) == [fs EXCEPT ![dir][month] = Append(@, line)]

\* The event logEvent would build if it ignored options.timestamp.
NewEvent_nowAlways(eventType, data, options) ==
    LET base == [ts |-> toISOString(now), type |-> eventType,
                 source |-> IF Truthy(Get(options, "source")) THEN options.source ELSE "manual",
                 data |-> data]
    IN  IF Truthy(Get(options, "id")) THEN base @@ [id |-> options.id] ELSE base

\* The event logEvent builds.
NewEvent(eventType, data, options) ==
    LET ts == IF "timestamp" \in DOMAIN options THEN options.timestamp ELSE toISOString(now)
        base == [ts |-> ts, type |-> eventType,
                 source |-> IF Truthy(Get(options, "source")) THEN options.source ELSE "manual",
                 data |-> data]
    IN  IF Truthy(Get(options, "id")) THEN base @@ [id |-> options.id] ELSE base

\* existsSync(dir) may be false: the directory holds no line yet.
MayBeMissing(fs, dir) == \A m \in Months : fs[dir][m] = <<>>

\* What a call hands back to its caller: the value its promise is fulfilled with,
\* or the error of the system call it is rejected with.
Fulfilled(op, arg, val) ==
    [op |-> op, arg |-> arg, val |-> val, rejected |-> FALSE, again |-> FALSE]
Rejected(op, arg, syscall) ==
    [op |-> op, arg |-> arg, val |-> syscall, rejected |-> TRUE, again |-> FALSE]

\* The files after a rejected appendFile that had written the beginning of the
\* line.
appendFileRejected_partial(fs, dir, month, line) ==
    [fs EXCEPT ![dir][month] = Append(@, BadLine)]

\* The files after an appendFile that was rejected.
appendFileRejected(fs, dir, month, line) == fs

\* One logEvent call, whatever the caller does around it: the line is appended
\* and the event returned, or mkdir (when the directory is missing) or appendFile
\* is rejected and the call rejects with that error.
logEventCall(eventType, data, options) ==
    LET event == NewEvent(eventType, data, options)
        month == YearMonth(Instant(event.ts) + tz)
        arg == <<eventType, data, options>>
    IN  /\ \/ /\ TotalLines(files, Directories) < MaxLines
              /\ files' = appendFile(files, EVENTS_DIR, month, JSONstringify(event))
              /\ ret' = Fulfilled("logEvent", arg, event)
           \/ /\ MayBeMissing(files, EVENTS_DIR)
              /\ UNCHANGED files
              /\ ret' = Rejected("logEvent", arg, "mkdir")
           \/ /\ files' = appendFileRejected(files, EVENTS_DIR, month, JSONstringify(event))
              /\ ret' = Rejected("logEvent", arg, "appendFile")
        /\ UNCHANGED <<dirOrder, now, tz, env>>

logEvent(eventType, data, options) ==
    /\ logEventCall(eventType, data, options)
    /\ UNCHANGED calls

-----------------------------------------------------------------------------
(* events.ts: identifiers *)

\* The clients whose tool calls the server may be handling at once.
Clients == {1, 2}

\* today.toISOString().slice(0, 10).replace(/-/g, ''): the UTC day of an instant
\* (31 January and 1 February 2026).
DateStr(instant) == IF instant < HalfHoursInJan THEN "20260131" ELSE "20260201"
\* new Date().getFullYear(): the local year of an instant
getFullYear(instant) == IF instant + tz < 0 THEN "2025" ELSE "2026"

\* s.padStart(n, c)
RECURSIVE padStart(_, _, _)
padStart(s, n, c) == IF Len(s) >= n THEN s ELSE padStart(c \o s, n, c)

\* events.filter(e => e.id?.startsWith(p)).map(e => e.id!)
RECURSIVE IdsStartingWith(_, _)
IdsStartingWith(events, p) ==
    IF events = <<>> THEN <<>>
    ELSE LET id == Get(Head(events), "id")
             rest == IdsStartingWith(Tail(events), p)
         IN  IF id # Undefined /\ StartsWith(id, p) THEN <<id>> \o rest ELSE rest

\* generateId that also counts the identifiers handed to calls that have not
\* logged their record yet.
generateId_reserving(prefix) ==
    LET dateStr == DateStr(now)
        existingIds == IdsStartingWith(readEvents(NoFilters), prefix \o "-" \o dateStr)
        reserved == Cardinality({c \in Clients : calls[c].pc = "logEvent"})
        nextNum == Len(existingIds) + reserved + 1
    IN  prefix \o "-" \o dateStr \o "-" \o padStart(ToString(nextNum), 3, "0")

generateId(prefix) ==
    LET dateStr == DateStr(now)
        existingIds == IdsStartingWith(readEvents(NoFilters), prefix \o "-" \o dateStr)
        nextNum == Len(existingIds) + 1
    IN  prefix \o "-" \o dateStr \o "-" \o padStart(ToString(nextNum), 3, "0")

generateGoalId ==
    LET year == getFullYear(now)
        existingIds == IdsStartingWith(readEvents([eventType |-> "goal"]), "g-" \o year)
        nextNum == Len(existingIds) + 1
    IN  "g-" \o year \o "-" \o padStart(ToString(nextNum), 3, "0")

-----------------------------------------------------------------------------
(* sync.ts *)

\* The line loop of readSyncedEvents: a line that does not parse is skipped.
RECURSIVE ParseLines(_)
ParseLines(lines) ==
    IF lines = <<>> THEN <<>>
    ELSE IF Parses(Head(lines)) THEN <<Head(lines)>> \o ParseLines(Tail(lines))
    ELSE ParseLines(Tail(lines))

RECURSIVE ParseFiles(_, _)
ParseFiles(dirFiles, names) ==
    IF names = <<>> THEN <<>>
    ELSE ParseLines(dirFiles[Head(names)]) \o ParseFiles(dirFiles, Tail(names))

readSyncedEvents(fs, source) == ParseFiles(fs[syncDir(source)], SortedFiles)

\* eventExists that searches the records of every service.
eventExists_anyService(fs, source, externalIdField, externalId) ==
    \E service \in Services :
        LET events == readSyncedEvents(fs, service)
        IN  \E i \in 1..Len(events) : Get(events[i].data, externalIdField) = externalId

eventExists(fs, source, externalIdField, externalId) ==
    LET events == readSyncedEvents(fs, source)
    IN  \E i \in 1..Len(events) : Get(events[i].data, externalIdField) = externalId

\* writeFile without the append flag: the file is replaced by the line.
writeFile_truncating(fs, dir, month, line) == [fs EXCEPT ![dir][month] = <<line>>]

\* writeFile(filepath, line, { flag: 'a' })
writeFile(fs, dir, month, line) == [fs EXCEPT ![dir][month] = Append(@, line)]

\* The files after a writeFile that was rejected.
writeFileRejected(fs, dir, month, line) == fs

\* writeSyncedEvent(source, event): the files after the call
writeSyncedEvent(fs, source, event) ==
    writeFile(fs, syncDir(source), YearMonth(Instant(event.ts) + tz), JSONstringify(event))

\* writeSyncedEvents(source, events): the files after the call
RECURSIVE writeSyncedEvents(_, _, _)
writeSyncedEvents(fs, source, events) ==
    IF events = <<>> THEN fs
    ELSE writeSyncedEvents(writeSyncedEvent(fs, source, Head(events)), source, Tail(events))

\* mkdir(syncDir, { recursive: true }): the directory listings of SYNCED_DIR
\* that can follow; a new directory may be listed at any position, and a
\* directory made elsewhere is not listed.
Mkdir(order, source) ==
    IF syncDir(source) # source THEN {order}
    ELSE IF \E i \in 1..Len(order) : order[i] = source THEN {order}
    ELSE {SubSeq(order, 1, k) \o <<source>> \o SubSeq(order, k + 1, Len(order)) :
            k \in 0..Len(order)}

RECURSIVE MaxOf(_)
MaxOf(S) ==
    LET x == CHOOSE y \in S : TRUE
    IN  IF S = {x} THEN x ELSE LET m == MaxOf(S \ {x}) IN IF x > m THEN x ELSE m

\* getLatestSyncTimestamp that takes the record stored last for the latest.
getLatestSyncTimestamp_lastStored(fs, source) ==
    LET events == readSyncedEvents(fs, source)
    IN  IF Len(events) = 0 THEN "null" ELSE Instant(Last(events).ts)

\* getLatestSyncTimestamp(source): null, or the latest instant
getLatestSyncTimestamp(fs, source) ==
    LET events == readSyncedEvents(fs, source)
    IN  IF Len(events) = 0 THEN "null"
        ELSE MaxOf({Instant(events[i].ts) : i \in 1..Len(events)})

createSyncedEvent(type, data, timestamp, source) ==
    [ts |-> timestamp, type |-> type, source |-> source, data |-> data]

\* How the loop of writeSyncedEvents can end: after every event (error ""), or at
\* the first event whose mkdir or writeFile is rejected, with the events before
\* it stored.
BatchOutcomes(events) ==
    {o \in [stored : 0..Len(events), error : {"", "mkdir", "writeFile"}] :
        (o.error = "") <=> (o.stored = Len(events))}

\* A batch written by the loop of writeSyncedEvents, as op(arg) sees it end,
\* whatever the caller does around it.
WriteBatchCall(op, arg, source, events) ==
    \E o \in BatchOutcomes(events) :
        /\ TotalLines(files, Directories) + o.stored <= MaxLines
        /\ files' = writeSyncedEvents(files, source, SubSeq(events, 1, o.stored))
        /\ dirOrder' \in (IF o.stored = 0 /\ o.error # "writeFile"
                          THEN {dirOrder} ELSE Mkdir(dirOrder, source))
        /\ ret' = IF o.error = "" THEN Fulfilled(op, arg, o.stored)
                  ELSE Rejected(op, arg, o.error)
        /\ UNCHANGED <<now, tz, env>>

WriteBatch(op, arg, source, events) ==
    /\ WriteBatchCall(op, arg, source, events)
    /\ UNCHANGED calls

-----------------------------------------------------------------------------
(* test-sync.ts: the Strava sync script *)

activityToEvent(activity) ==
    createSyncedEvent("exercise.completed",
                      [activity |-> "run", avg_hr |-> Undefined, strava_id |-> activity.id],
                      activity.start_date, "strava")

\* The loop that keeps the activities eventExists does not find.
RECURSIVE NewActivities(_, _)
NewActivities(fs, activities) ==
    IF activities = <<>> THEN <<>>
    ELSE LET a == Head(activities)
             rest == NewActivities(fs, Tail(activities))
         IN  IF ~eventExists(fs, "strava", "strava_id", a.id) THEN <<a>> \o rest ELSE rest

RECURSIVE MapToEvents(_)
MapToEvents(activities) ==
    IF activities = <<>> THEN <<>>
    ELSE <<activityToEvent(Head(activities))>> \o MapToEvents(Tail(activities))

\* fetchActivities(accessToken, after) can have returned the activities: with a
\* watermark, the API returns none that started before it.
Fetched(fs, activities) ==
    IF readSyncedEvents(fs, "strava") = <<>> THEN TRUE
    ELSE \A i \in 1..Len(activities) :
            Instant(activities[i].start_date) >= getLatestSyncTimestamp(fs, "strava")

\* main() of the Strava sync, for the activities the API returns: it ends with
\* the number of activities stored, or with the error of a rejected write.
StravaSync(activities) ==
    /\ Fetched(files, activities)
    /\ WriteBatch("stravaSync", activities, "strava",
                  MapToEvents(NewActivities(files, activities)))

-----------------------------------------------------------------------------
(* The Fitbit sync script *)

\* `${weight.date}T${weight.time}` and sleep.startTime: local date-times, written
\* without offset.
weightToEvent(weight) ==
    createSyncedEvent("health.weight", [unit |-> "kg", fitbit_id |-> weight.logId],
                      [clock |-> weight.clock, zone |-> ""], "fitbit")

sleepToEvent(sleep) ==
    createSyncedEvent("health.sleep",
                      [deep_min |-> Undefined, rem_min |-> Undefined, fitbit_id |-> sleep.logId],
                      [clock |-> sleep.clock, zone |-> ""], "fitbit")

\* The loops that keep the logs eventExists does not find.
RECURSIVE NewLogs(_, _)
NewLogs(fs, logs) ==
    IF logs = <<>> THEN <<>>
    ELSE LET rest == NewLogs(fs, Tail(logs))
         IN  IF ~eventExists(fs, "fitbit", "fitbit_id", Head(logs).logId)
             THEN <<Head(logs)>> \o rest ELSE rest

RECURSIVE MapLogs(_, _)
MapLogs(logs, kind) ==
    IF logs = <<>> THEN <<>>
    ELSE <<IF kind = "weight" THEN weightToEvent(Head(logs)) ELSE sleepToEvent(Head(logs))>>
         \o MapLogs(Tail(logs), kind)

\* formatDate(date): the UTC day of an instant, and the day a log is dated,
\* counted from 2026-01-01.
formatDate(instant) == instant \div 48

\* fetchWeightLogs and fetchSleepLogs can have returned the logs: the API returns
\* the logs dated from the day of the watermark (without one, from 30 days
\* ago) to today.
FitbitFetched(fs, logs) ==
    LET latestSync == getLatestSyncTimestamp(fs, "fitbit")
        startDate == IF readSyncedEvents(fs, "fitbit") = <<>> THEN now - 30 * 48 ELSE latestSync
    IN  \A i \in 1..Len(logs) :
            /\ formatDate(startDate) <= formatDate(logs[i].clock)
            /\ formatDate(logs[i].clock) <= formatDate(now)

\* main() of the Fitbit sync, for the weight and sleep logs the API returns: it
\* ends with the number of records stored, or with the error of a rejected write.
FitbitSync(weightLogs, sleepLogs) ==
    /\ FitbitFetched(files, weightLogs \o sleepLogs)
    /\ WriteBatch("fitbitSync", <<weightLogs, sleepLogs>>, "fitbit",
                  MapLogs(NewLogs(files, weightLogs), "weight")
                      \o MapLogs(NewLogs(files, sleepLogs), "sleep"))

-----------------------------------------------------------------------------
(* query.ts *)

\* The index of key id in an object's insertion-ordered entries, 0 when absent.
IndexOf(entries, id) ==
    IF \E i \in 1..Len(entries) : entries[i].id = id
    THEN CHOOSE i \in 1..Len(entries) : entries[i].id = id
    ELSE 0

\* obj[id] = value: a new key is added last, an existing key keeps its place
\* (the order Object.values follows for keys that are not array indices).
Put(entries, id, value) ==
    IF IndexOf(entries, id) = 0 THEN Append(entries, value)
    ELSE [entries EXCEPT ![IndexOf(entries, id)] = value]

\* One pass of the loop of getOpenTasks, if every record of a task that is not
\* its creation closed it.
TaskStep_closingOnAny(tasks, event) ==
    LET id == Get(event, "id")
    IN  IF ~Truthy(id) THEN tasks
        ELSE IF event.type = "task.created"
        THEN Put(tasks, id, [id |-> id,
                             title |-> Get(event.data, "title"),
                             area |-> Get(event.data, "area"),
                             due |-> Get(event.data, "due"),
                             priority |-> Get(event.data, "priority"),
                             status |-> "open",
                             created |-> event.ts])
        ELSE IF IndexOf(tasks, id) # 0
             THEN [tasks EXCEPT ![IndexOf(tasks, id)].status = "closed"]
             ELSE tasks

\* One pass of the loop of getOpenTasks.
TaskStep(tasks, event) ==
    LET id == Get(event, "id")
    IN  IF ~Truthy(id) THEN tasks
        ELSE IF event.type = "task.created"
        THEN Put(tasks, id, [id |-> id,
                             title |-> Get(event.data, "title"),
                             area |-> Get(event.data, "area"),
                             due |-> Get(event.data, "due"),
                             priority |-> Get(event.data, "priority"),
                             status |-> "open",
                             created |-> event.ts])
        ELSE IF event.type = "task.completed" \/ event.type = "task.abandoned"
        THEN IF IndexOf(tasks, id) # 0
             THEN [tasks EXCEPT ![IndexOf(tasks, id)].status = "closed"]
             ELSE tasks
        ELSE tasks

RECURSIVE FoldTasks(_, _)
FoldTasks(tasks, events) ==
    IF events = <<>> THEN tasks
    ELSE FoldTasks(TaskStep(tasks, Head(events)), Tail(events))

IsOpen(t) == t.status = "open"

\* getOpenTasks that leaves out the tasks dated after the current time.
getOpenTasksIn_untilNow(fs, order) ==
    LET CreatedByNow(t) == t.status = "open" /\ Instant(t.created) <= now
    IN  SelectSeq(FoldTasks(<<>>, readEventsIn(fs, order, [eventType |-> "task"])), CreatedByNow)

getOpenTasksIn(fs, order) ==
    SelectSeq(FoldTasks(<<>>, readEventsIn(fs, order, [eventType |-> "task"])), IsOpen)

getOpenTasks == getOpenTasksIn(files, dirOrder)

NewGoal(id) ==
    [id |-> id, title |-> "", history |-> <<>>, horizon |-> Undefined, area |-> Undefined,
     target_date |-> Undefined, success_criteria |-> Undefined,
     latest_status |-> Undefined, achieved |-> FALSE, achieved_at |-> Undefined]

\* The branches on event.type shared by getGoalStatus and getActiveGoals.
GoalEvent(goal, event) ==
    CASE event.type = "goal.set" ->
           [goal EXCEPT !.title = IF Truthy(Get(event.data, "title"))
                                  THEN event.data.title ELSE "",
                        !.horizon = Get(event.data, "horizon"),
                        !.area = Get(event.data, "area"),
                        !.target_date = Get(event.data, "target_date"),
                        !.success_criteria = Get(event.data, "success_criteria")]
      [] event.type = "goal.progress" ->
           [goal EXCEPT !.latest_status = Get(event.data, "status"),
                        !.history = Append(@, event)]
      [] event.type = "goal.revised" ->
           [goal EXCEPT !.title = IF Truthy(Get(event.data, "title"))
                                  THEN event.data.title ELSE @,
                        !.target_date = IF Truthy(Get(event.data, "target_date"))
                                        THEN event.data.target_date ELSE @,
                        !.history = Append(@, event)]
      [] event.type = "goal.achieved" ->
           [goal EXCEPT !.achieved = TRUE, !.achieved_at = event.ts]
      [] OTHER -> goal

RECURSIVE FoldGoal(_, _)
FoldGoal(goal, events) ==
    IF events = <<>> THEN goal
    ELSE FoldGoal(GoalEvent(goal, Head(events)), Tail(events))

getGoalStatus(goalId) ==
    LET events == readEvents([eventType |-> "goal", id |-> goalId])
    IN  IF Len(events) = 0 THEN "null" ELSE FoldGoal(NewGoal(goalId), events)

\* One pass of the loop of getActiveGoals, if goal.set started the view afresh.
GoalStep_reopening(goals, event) ==
    LET id == Get(event, "id")
    IN  IF ~Truthy(id) THEN goals
        ELSE LET known == IF IndexOf(goals, id) = 0 THEN Append(goals, NewGoal(id)) ELSE goals
                 i == IndexOf(known, id)
             IN  IF event.type = "goal.abandoned"
                 THEN [known EXCEPT ![i].achieved = TRUE]
                 ELSE IF event.type = "goal.set"
                 THEN [known EXCEPT ![i] = GoalEvent(NewGoal(id), event)]
                 ELSE [known EXCEPT ![i] = GoalEvent(@, event)]

\* One pass of the loop of getActiveGoals.
GoalStep(goals, event) ==
    LET id == Get(event, "id")
    IN  IF ~Truthy(id) THEN goals
        ELSE LET known == IF IndexOf(goals, id) = 0 THEN Append(goals, NewGoal(id)) ELSE goals
                 i == IndexOf(known, id)
             IN  IF event.type = "goal.abandoned"
                 THEN [known EXCEPT ![i].achieved = TRUE]
                 ELSE [known EXCEPT ![i] = GoalEvent(@, event)]

RECURSIVE FoldGoals(_, _)
FoldGoals(goals, events) ==
    IF events = <<>> THEN goals
    ELSE FoldGoals(GoalStep(goals, Head(events)), Tail(events))

IsActive(g) == ~g.achieved

getActiveGoalsIn(fs, order) ==
    SelectSeq(FoldGoals(<<>>, readEventsIn(fs, order, [eventType |-> "goal"])), IsActive)

getActiveGoals == getActiveGoalsIn(files, dirOrder)

HalfHoursInWeek == 7 * 48

RECURSIVE OfType(_, _)
OfType(events, type) ==
    IF events = <<>> THEN <<>>
    ELSE IF Head(events).type = type THEN <<Head(events)>> \o OfType(Tail(events), type)
    ELSE OfType(Tail(events), type)

\* The sum of data.duration_min || 0 over the work.logged and work.stopped events.
RECURSIVE WorkMinutes(_)
WorkMinutes(events) ==
    IF events = <<>> THEN 0
    ELSE LET e == Head(events)
         IN  (IF e.type \in {"work.logged", "work.stopped"} /\ "duration_min" \in DOMAIN e.data
              THEN e.data.duration_min ELSE 0) + WorkMinutes(Tail(events))

\* getWeeklySummary(): work_min is 60 * work_hours
getWeeklySummary ==
    LET weekAgo == now - HalfHoursInWeek
        events == readEvents([startDate |-> toISOString(weekAgo)])
    IN  [tasks_completed |-> OfType(events, "task.completed"),
         tasks_created |-> OfType(events, "task.created"),
         meetings |-> OfType(events, "meeting.completed"),
         exercise_sessions |-> OfType(events, "exercise.completed"),
         work_min |-> WorkMinutes(events),
         checkins |-> OfType(events, "mental.checkin")]

-----------------------------------------------------------------------------
(* The read-only operations as calls: each leaves the log alone and returns. *)

\* A read-only operation that makes the directory of a service before it reads.
Returns_makingDir(op, arg, val) ==
    /\ ret' = [Fulfilled(op, arg, val) EXCEPT !.again = ret.op = op /\ ret.arg = arg]
    /\ \E service \in Services : dirOrder' \in Mkdir(dirOrder, service)
    /\ UNCHANGED <<files, now, tz, env, calls>>

\* again: the same query was the last operation before this call
Returns(op, arg, val) ==
    /\ ret' = [Fulfilled(op, arg, val) EXCEPT !.again = ret.op = op /\ ret.arg = arg]
    /\ UNCHANGED <<files, dirOrder, now, tz, env, calls>>

\* readEvents(filters) as a call: what the sort throws rejects the call.
ReadEvents(filters) ==
    IF SortThrows(Collected(files, dirOrder, filters))
    THEN /\ ret' = Rejected("readEvents", filters, "TypeError")
         /\ UNCHANGED <<files, dirOrder, now, tz, env, calls>>
    ELSE Returns("readEvents", filters, readEvents(filters))
\* queryEvents(filters): readEvents(filters)
QueryEvents(filters) ==
    IF SortThrows(Collected(files, dirOrder, filters))
    THEN /\ ret' = Rejected("queryEvents", filters, "TypeError")
         /\ UNCHANGED <<files, dirOrder, now, tz, env, calls>>
    ELSE Returns("queryEvents", filters, readEvents(filters))
GetOpenTasks == Returns("getOpenTasks", <<>>, getOpenTasks)
GetActiveGoals == Returns("getActiveGoals", <<>>, getActiveGoals)
GetGoalStatus(goalId) == Returns("getGoalStatus", goalId, getGoalStatus(goalId))
GetWeeklySummary == Returns("getWeeklySummary", <<>>, getWeeklySummary)
GenerateId(prefix) == Returns("generateId", prefix, generateId(prefix))
GenerateGoalId == Returns("generateGoalId", <<>>, generateGoalId)
ReadSyncedEvents(source) ==
    Returns("readSyncedEvents", source, readSyncedEvents(files, source))
EventExists(source, field, externalId) ==
    Returns("eventExists", <<source, field, externalId>>,
            eventExists(files, source, field, externalId))
GetLatestSyncTimestamp(source) ==
    Returns("getLatestSyncTimestamp", source, getLatestSyncTimestamp(files, source))

\* writeSyncedEvent(source, event) as a call
WriteSyncedEvent(source, event) ==
    LET month == YearMonth(Instant(event.ts) + tz)
        arg == <<source, event>>
    IN  /\ \/ /\ TotalLines(files, Directories) < MaxLines
              /\ files' = writeSyncedEvent(files, source, event)
              /\ dirOrder' \in Mkdir(dirOrder, source)
              /\ ret' = Fulfilled("writeSyncedEvent", arg, Undefined)
           \/ /\ UNCHANGED <<files, dirOrder>>
              /\ ret' = Rejected("writeSyncedEvent", arg, "mkdir")
           \/ /\ files' = writeFileRejected(files, syncDir(source), month, JSONstringify(event))
              /\ dirOrder' \in Mkdir(dirOrder, source)
              /\ ret' = Rejected("writeSyncedEvent", arg, "writeFile")
        /\ UNCHANGED <<now, tz, env, calls>>

\* writeSyncedEvents(source, events) as a call
WriteSyncedEvents(source, events) ==
    WriteBatch("writeSyncedEvents", <<source, events>>, source, events)

-----------------------------------------------------------------------------
(* mcp-server.ts: the tools that write *)

\* case 'log_event' that hands the caller's source on as it is.
LogEventTool_noDefault(event_type, data, id, source) ==
    logEvent(event_type, data, [id |-> id, source |-> source])

\* case 'log_event'
LogEventTool(event_type, data, id, source) ==
    logEvent(event_type, data,
             [id |-> id, source |-> IF Truthy(source) THEN source ELSE "claude"])

\* case 'complete_task'
CompleteTask(task_id) ==
    logEvent("task.completed", [x \in {} |-> ""], [id |-> task_id, source |-> "claude"])

\* case 'add_task'
AddTask(title) ==
    LET taskId == generateId("t")
    IN  logEvent("task.created", [title |-> title], [id |-> taskId, source |-> "claude"])

\* No call of the process is in progress.
Idle == [pc |-> "idle", title |-> Undefined, dateStr |-> Undefined, events |-> <<>>,
         taskId |-> Undefined]

\* case 'add_task' up to its first await: generateId('t') has read the log (its
\* events, on the day dateStr) and returned taskId; the call is suspended there.
AddTaskGenerateId(c, title) ==
    /\ calls[c].pc = "idle"
    /\ calls' = [calls EXCEPT ![c] = [pc |-> "logEvent", title |-> title,
                                      dateStr |-> DateStr(now),
                                      events |-> readEvents(NoFilters),
                                      taskId |-> generateId("t")]]
    /\ UNCHANGED <<files, dirOrder, now, tz, env, ret>>

\* case 'add_task' from its first await on: logEvent with the identifier.
AddTaskLogEvent(c) ==
    /\ calls[c].pc = "logEvent"
    /\ logEventCall("task.created", [title |-> calls[c].title],
                    [id |-> calls[c].taskId, source |-> "claude"])
    /\ calls' = [calls EXCEPT ![c] = Idle]

\* main() of the Strava sync run by process c, up to its last eventExists: the
\* run holds the events of the activities it found new, and has yet to call
\* writeSyncedEvents.
StravaSyncCheck(c, activities) ==
    /\ calls[c].pc = "idle"
    /\ Fetched(files, activities)
    /\ calls' = [calls EXCEPT ![c] = [Idle EXCEPT !.pc = "writeSyncedEvents",
                                                  !.events = MapToEvents(NewActivities(files, activities))]]
    /\ UNCHANGED <<files, dirOrder, now, tz, env, ret>>

\* main() of the Strava sync run by process c, from writeSyncedEvents on.
StravaSyncWrite(c) ==
    /\ calls[c].pc = "writeSyncedEvents"
    /\ WriteBatchCall("stravaSync", c, "strava", calls[c].events)
    /\ calls' = [calls EXCEPT ![c] = Idle]

-----------------------------------------------------------------------------
(* The clock, the initial states *)

Tick ==
    /\ now < StartOfClock + MaxTicks
    /\ now' = now + 1
    /\ UNCHANGED <<files, dirOrder, tz, env, ret, calls>>

EmptyFiles == [d \in Directories |-> [m \in Months |-> <<>>]]

Init ==
    /\ files = EmptyFiles
    /\ dirOrder = <<>>
    /\ now = StartOfClock
    /\ tz \in {0, OneHour}
    /\ env = Deployed
    /\ ret = Fulfilled("none", <<>>, Undefined)
    /\ calls = [c \in Clients |-> Idle]

Stamp(clock, zone) == [clock |-> clock, zone |-> zone]

-----------------------------------------------------------------------------
(* Spec: every core operation, on a log of tasks, goals and synced records *)

TaskId1 == "t-20260131-001"
GoalId1 == "g-2026-001"
ExternalIds == {"a", "b"}

SyncedEvent(source, externalId, ts) ==
    createSyncedEvent("exercise.completed",
                      [x \in {source \o "_id"} |-> externalId], ts, source)

\* The options of a task the caller dates itself.
TaskOptions == [id |-> TaskId1, timestamp |-> Stamp(StartOfClock, "+01:00")]

\* The options of a goal logged through the assistant.
GoalOptions == [id |-> GoalId1, source |-> "claude"]

\* One Fitbit record, dated in February.
FitbitEvent == SyncedEvent("fitbit", "a", Stamp(StartOfClock + OneHour, "Z"))

\* One batch of two Strava activities, an hour apart across the month boundary.
StravaBatch == <<SyncedEvent("strava", "a", Stamp(StartOfClock, "Z")),
                 SyncedEvent("strava", "b", Stamp(StartOfClock + OneHour, "Z"))>>

Next ==
    \/ Tick
    \/ logEvent("task.created", [title |-> "A"], TaskOptions)
    \/ logEvent("goal.set", [title |-> "G"], GoalOptions)
    \/ WriteSyncedEvent("fitbit", FitbitEvent)
    \/ WriteSyncedEvents("strava", StravaBatch)
    \/ ReadEvents([eventType |-> "task"])
    \/ GetOpenTasks
    \/ GetActiveGoals
    \/ GetGoalStatus(GoalId1)
    \/ GetWeeklySummary
    \/ GenerateId("t")
    \/ GenerateGoalId
    \/ EventExists("strava", "strava_id", "a")
    \/ GetLatestSyncTimestamp("strava")

Spec == Init /\ [][Next]_vars

\* Whether sequence s begins with sequence p.
IsPrefix(p, s) == Len(p) <= Len(s) /\ SubSeq(s, 1, Len(p)) = p

\* C1: over every step of every core operation, each log file keeps the lines it
\* held, unchanged and at the same positions: a file only grows at its end.
C1_AppendOnly ==
    [][\A d \in Dirs, m \in Months : IsPrefix(files[d][m], files'[d][m])]_vars

\* logEvent and writeSyncedEvent have both appended to a file that held lines.
C1_Witness ==
    /\ \E m \in Months : Len(files[EVENTS_DIR][m]) >= 2
    /\ \E d \in Services, m \in Months : Len(files[d][m]) >= 1

-----------------------------------------------------------------------------
(* SpecSync: runs of the Strava sync script *)

StartDates == {Stamp(StartOfClock, "Z"), Stamp(StartOfClock + OneHour, "Z")}
Activities == [id : ExternalIds, start_date : StartDates]
\* What the API may return to one run: one or two activities.
Offered == {<<a>> : a \in Activities} \cup {<<a, b>> : a \in Activities, b \in Activities}

NextSync ==
    \/ Tick
    \/ \E activities \in Offered : StravaSync(activities)
    \/ \E x \in ExternalIds : EventExists("strava", "strava_id", x)
    \/ GetLatestSyncTimestamp("strava")

SpecSync == Init /\ [][NextSync]_vars

\* The number of positions of sequence s that hold x.
Count(s, x) == Cardinality({i \in 1..Len(s) : s[i] = x})

\* C2: after any sequence of sync runs, at most one stored record of the
\* service carries any given external id.
C2_OneRecordPerExternalId ==
    LET stored == readSyncedEvents(files, "strava")
    IN  \A x \in ExternalIds :
          Cardinality({i \in 1..Len(stored) : Get(stored[i].data, "strava_id") = x}) <= 1
-----------------------------------------------------------------------------
(* SpecTask: the lifecycle records of one task and one goal, and the two     *)
(* derived views                                                             *)

\* The options of a logEvent call: the timestamp is left to the clock, or the
\* caller dates the record half an hour ahead.
OptionsFor(id) == {[id |-> id], [id |-> id, timestamp |-> toISOString(now + 1)]}

\* The data of a goal event.
GoalData == [title |-> "G", status |-> "on_track"]

NextTask ==
    \/ Tick
    \/ \E k \in {"task.created", "task.completed"}, options \in OptionsFor(TaskId1) :
          logEvent(k, [title |-> "A"], options)
    \/ \E k \in {"goal.set", "goal.abandoned"} :
          logEvent(k, GoalData, [id |-> GoalId1])
    \/ GetOpenTasks
    \/ GetActiveGoals

SpecTask == Init /\ [][NextTask]_vars

\* Every line stored in the log, directory by directory and file by file.
RECURSIVE LinesOf(_, _)
LinesOf(fs, dirs) ==
    IF dirs = <<>> THEN <<>>
    ELSE fs[Head(dirs)]["2026-01"] \o fs[Head(dirs)]["2026-02"] \o LinesOf(fs, Tail(dirs))
Stored(fs) == SelectSeq(LinesOf(fs, <<EVENTS_DIR, "strava", "fitbit">>), Parses)

Range(s) == {s[i] : i \in 1..Len(s)}
IdsOf(entities) == {entities[i].id : i \in 1..Len(entities)}
IsTerminal(e) == e.type \in {"task.completed", "task.abandoned"}

\* The log holds a task.created record of id followed in time by a terminal
\* record of id.
ClosedInLog(fs, id) ==
    \E c \in Range(Stored(fs)), t \in Range(Stored(fs)) :
        /\ c.type = "task.created" /\ Get(c, "id") = id
        /\ IsTerminal(t) /\ Get(t, "id") = id
        /\ Instant(c.ts) < Instant(t.ts)

\* The step appends to the log, and only records dated after every stored one.
AppendsLater ==
    /\ Len(Stored(files')) > Len(Stored(files))
    /\ IsPrefix(LinesOf(files, <<EVENTS_DIR>>), LinesOf(files', <<EVENTS_DIR>>))
    /\ \A new \in Range(Stored(files')) \ Range(Stored(files)) :
         \A old \in Range(Stored(files)) : Instant(old.ts) < Instant(new.ts)

\* C3: once the log holds a task.created record of an id followed in time by a
\* terminal record of that id, no record appended afterwards with a later
\* timestamp makes getOpenTasks return the id.
C3_NoReopen ==
    [][(ClosedInLog(files, TaskId1) /\ AppendsLater)
         => TaskId1 \notin IdsOf(getOpenTasksIn(files', dirOrder'))]_vars

C9_OpenIffNoTerminal ==
    ret.op = "getOpenTasks" =>
        IdsOf(ret.val) =
            {id \in {TaskId1} :
                /\ \E c \in Range(Stored(files)) : c.type = "task.created" /\ Get(c, "id") = id
                /\ ~\E t \in Range(Stored(files)) : IsTerminal(t) /\ Get(t, "id") = id}
-----------------------------------------------------------------------------
(* SpecId: identifiers generated between writes made through the MCP tools  *)

TaskId2 == "t-20260131-002"
GoalId2 == "g-2026-002"

NextId ==
    \/ Tick
    \/ AddTask("A")
    \/ CompleteTask(TaskId1)
    \/ LogEventTool("task.created", [title |-> "B"], TaskId2, "")
    \/ LogEventTool("goal.set", [title |-> "G"], GoalId2, "")
    \/ GenerateId("t")
    \/ GenerateGoalId

SpecId == Init /\ [][NextId]_vars

\* C10: an identifier returned by generateId or generateGoalId is carried by no
\* record already in the log.
C10_FreshIdentifier ==
    ret.op \in {"generateId", "generateGoalId"} =>
        \A e \in Range(Stored(files)) : Get(e, "id") # ret.val

-----------------------------------------------------------------------------
(* SpecRead: readEvents over logs that spread over directories and months,  *)
(* carry timestamps with different offsets and may hold a line that is not   *)
(* JSON                                                                      *)

HandWritten == [ts |-> Stamp(StartOfClock, "Z"), type |-> "mental.checkin",
                source |-> "manual", data |-> [mood |-> "ok"]]

\* The events/2026-01.jsonl files a run may start from: empty, or edited by hand
\* and left with a broken line.
InitialFiles == {<<>>, <<BadLine>>, <<HandWritten, BadLine>>}

InitRead ==
    /\ \E lines \in InitialFiles :
          files = [EmptyFiles EXCEPT ![EVENTS_DIR]["2026-01"] = lines]
    /\ dirOrder = <<>>
    /\ now = StartOfClock
    /\ tz \in {0, OneHour}
    /\ env = Deployed
    /\ ret = Fulfilled("none", <<>>, Undefined)
    /\ calls = [c \in Clients |-> Idle]

\* Timestamps as callers and services write them: UTC, with an offset, without.
Stamps == {Stamp(StartOfClock, "Z"), Stamp(StartOfClock + 1, "+01:00"),
           Stamp(StartOfClock + OneHour, "")}

NextRead ==
    \/ \E k \in {"task.created", "taskx.anything"}, ts \in Stamps :
          logEvent(k, [title |-> "A"], [timestamp |-> ts])
    \/ \E source \in Services :
          WriteSyncedEvent(source, SyncedEvent(source, "a", toISOString(now + OneHour)))
    \/ \E filters \in {NoFilters, [eventType |-> "task"]} : ReadEvents(filters)

SpecRead == InitRead /\ [][NextRead]_vars

\* Kind k equals prefix p or begins with p followed by a dot.
KindMatches(k, p) == k = p \/ StartsWith(k, p \o ".")

\* C4: readEvents with kind prefix "task" returns exactly the records whose
\* kind is "task" or begins with "task.".
C4_ExactBoundaryPrefix ==
    (ret.op = "readEvents" /\ ret.arg = [eventType |-> "task"]) =>
        \A e \in Range(Stored(files)) \cup Range(ret.val) :
            Count(ret.val, e) = IF KindMatches(e.type, "task") THEN Count(Stored(files), e) ELSE 0

\* C5: the sequence readEvents returns is in ascending order of the instants
\* its timestamps denote.
C5_ChronologicalOrder ==
    ret.op = "readEvents" =>
        \A i \in 1..Len(ret.val), j \in 1..Len(ret.val) :
            i < j => Instant(ret.val[i].ts) <= Instant(ret.val[j].ts)

\* C6: an unfiltered readEvents returns every well-formed record of every file
\* of events/ and of every service directory, each as often as it is stored.
C6_EveryRecordOnce ==
    (ret.op = "readEvents" /\ ret.arg = NoFilters) =>
        /\ Len(ret.val) = Len(Stored(files))
        /\ \A e \in Range(Stored(files)) \cup Range(ret.val) :
              Count(ret.val, e) = Count(Stored(files), e)

\* An unfiltered read of a log with records in events/ and in two service
\* directories, in both monthly files.
C6_Witness ==
    /\ ret.op = "readEvents" /\ ret.arg = NoFilters
    /\ \A d \in Dirs : \E m \in Months : files[d][m] # <<>>
    /\ \A m \in Months : \E d \in Dirs : files[d][m] # <<>>

BadLines(lines) == Cardinality({i \in 1..Len(lines) : ~Parses(lines[i])})

\* C7: when a file holds one line that is not JSON, an unfiltered readEvents
\* returns the well-formed lines of that file, those after the bad line
\* included, and of every other file, and nothing else.
C7_BadLineIsolated ==
    (ret.op = "readEvents" /\ ret.arg = NoFilters) =>
        \A d \in Dirs, m \in Months :
            BadLines(files[d][m]) = 1 =>
                /\ \A i \in 1..Len(files[d][m]) :
                      Parses(files[d][m][i]) => files[d][m][i] \in Range(ret.val)
                /\ \A d2 \in Dirs, m2 \in Months : Range(files[d2][m2]) \ {BadLine} \subseteq Range(ret.val)
                /\ Len(ret.val) = Len(LinesOf(files, <<EVENTS_DIR, "strava", "fitbit">>)) - 1

\* An unfiltered read of a file whose bad line has a record after it, with a
\* record in the next file of the directory: both records are returned.
C7_Witness ==
    /\ ret.op = "readEvents" /\ ret.arg = NoFilters
    /\ BadLines(files[EVENTS_DIR]["2026-01"]) = 1
    /\ Parses(Last(files[EVENTS_DIR]["2026-01"]))
    /\ files[EVENTS_DIR]["2026-02"] # <<>>
    /\ Len(ret.val) = 2

-----------------------------------------------------------------------------
(* SpecRace: add_task calls of two clients, interleaved at their awaits      *)

NextRace ==
    \/ Tick
    \/ \E c \in Clients : AddTaskGenerateId(c, "A")
    \/ \E c \in Clients : AddTaskLogEvent(c)

SpecRace == Init /\ [][NextRace]_vars

\* Both calls are suspended between generateId and logEvent, and their
\* generateId calls read the same log on the same day.
BothReadBeforeEitherAppends ==
    /\ \A c \in Clients : calls[c].pc = "logEvent"
    /\ calls[1].events = calls[2].events
    /\ calls[1].dateStr = calls[2].dateStr

\* C11: two generateId calls for prefix t on the same day that both read the
\* log before either caller appends its record return the same identifier.
C11_RaceToSameId ==
    BothReadBeforeEitherAppends => calls[1].taskId = calls[2].taskId

\* The interleaving, on a log that already holds a task of the day: both calls
\* hold the identifier numbered 002.
C11_Witness ==
    /\ BothReadBeforeEitherAppends
    /\ calls[1].events # <<>>
    /\ calls[1].taskId = TaskId2
    /\ calls[2].taskId = TaskId2

-----------------------------------------------------------------------------
(* SpecWrite: logEvent and writeSyncedEvent calls that succeed or are        *)
(* rejected, with every combination of options                               *)

\* The options of a logEvent call: none, an id, empty strings, all.
WriteOptions ==
    {NoFilters, [id |-> TaskId1], [id |-> "", source |-> ""],
     [id |-> TaskId1, source |-> "claude", timestamp |-> Stamp(StartOfClock + OneHour, "+01:00")]}

\* Payloads: plain, and with a field the caller left undefined.
Payloads == {[title |-> "A"], [title |-> "A", due |-> Undefined]}

NextWrite ==
    \/ Tick
    \/ \E data \in Payloads, options \in WriteOptions : logEvent("task.created", data, options)
    \/ WriteSyncedEvent("fitbit", FitbitEvent)

SpecWrite == Init /\ [][NextWrite]_vars

\* Objects a and b are the same JSON value: a field that holds undefined counts
\* as a field left out.
SameJson(a, b) == \A f \in DOMAIN a \cup DOMAIN b : Get(a, f) = Get(b, f)
SameEvent(a, b) ==
    /\ a.ts = b.ts /\ a.type = b.type /\ a.source = b.source
    /\ Get(a, "id") = Get(b, "id")
    /\ SameJson(a.data, b.data)

\* The step is a logEvent call that was fulfilled and changed the log.
LogEventSucceeds == ret'.op = "logEvent" /\ ~ret'.rejected /\ files' # files

-----------------------------------------------------------------------------
(* SpecGoal: the lifecycle records of one goal and the two goal views        *)

GoalSetData == [title |-> "G", horizon |-> "quarter", area |-> "work",
                target_date |-> "2026-06-30", success_criteria |-> "shipped"]
AtStartZ == [id |-> GoalId1, timestamp |-> Stamp(StartOfClock, "Z")]
HalfPastPlusOne == [id |-> GoalId1, timestamp |-> Stamp(StartOfClock + 1, "+01:00")]
HalfHourEarlierZ == [id |-> GoalId1, timestamp |-> Stamp(StartOfClock - 1, "Z")]

\* The logEvent calls on the goal: kind, payload, options.  The second progress
\* record is dated half an hour before the first, with an offset of one hour.
GoalCalls ==
    {<<"goal.set", GoalSetData, AtStartZ>>,
     <<"goal.progress", [status |-> "on_track"], AtStartZ>>,
     <<"goal.progress", [status |-> "at_risk"], HalfPastPlusOne>>,
     <<"goal.revised", [title |-> "G2", target_date |-> "2026-12-31"], [id |-> GoalId1]>>,
     <<"goal.revised", [horizon |-> "year"], AtStartZ>>,
     <<"goal.achieved", NoFilters, AtStartZ>>,
     <<"goal.abandoned", [reason |-> "dropped"], HalfHourEarlierZ>>}

NextGoal ==
    \/ Tick
    \/ \E call \in GoalCalls : logEvent(call[1], call[2], call[3])
    \/ GetActiveGoals
    \/ GetGoalStatus(GoalId1)

SpecGoal == Init /\ [][NextGoal]_vars

\* The stored records of entity id whose kind is one of kinds, in log order.
OfId(id, kinds) ==
    SelectSeq(Stored(files), LAMBDA e : Get(e, "id") = id /\ e.type \in kinds)

\* C14: for every goal getActiveGoals returns, latest_status is the status of a
\* goal.progress record of its id that no other is later than, and history
\* holds exactly the goal.progress and goal.revised records of its id, in
\* ascending order of their instants.
C14_LatestStatusAndHistory ==
    ret.op = "getActiveGoals" =>
        \A i \in 1..Len(ret.val) :
            LET g == ret.val[i]
                progress == OfId(g.id, {"goal.progress"})
                changes == OfId(g.id, {"goal.progress", "goal.revised"})
            IN  /\ progress # <<>> =>
                      \E k \in 1..Len(progress) :
                          /\ \A j \in 1..Len(progress) :
                                Instant(progress[j].ts) <= Instant(progress[k].ts)
                          /\ g.latest_status = Get(progress[k].data, "status")
                /\ Len(g.history) = Len(changes)
                /\ \A e \in Range(changes) : Count(g.history, e) = Count(changes, e)
                /\ \A a \in 1..Len(g.history), b \in 1..Len(g.history) :
                      a < b => Instant(g.history[a].ts) <= Instant(g.history[b].ts)

RevisableFields == {"title", "horizon", "area", "target_date", "success_criteria"}

\* The goal view after replaying record e is the view before it with exactly
\* the revisable fields of e's payload overwritten.
RevisedBy(before, after, e) ==
    \A f \in RevisableFields :
        after[f] = IF f \in DOMAIN e.data THEN e.data[f] ELSE before[f]

\* C15: in the replay of getGoalStatus and of getActiveGoals, every goal.revised
\* record sets the fields among title, horizon, area, target_date and
\* success_criteria that its payload holds, and leaves the others of them as
\* they were.
C15_RevisedOverwritesPresentFields ==
    ret.op \in {"getGoalStatus", "getActiveGoals"} =>
        LET events == readEvents([eventType |-> "goal", id |-> GoalId1])
        IN  \A k \in 1..Len(events) :
                events[k].type = "goal.revised" =>
                    /\ RevisedBy(FoldGoal(NewGoal(GoalId1), SubSeq(events, 1, k - 1)),
                                 FoldGoal(NewGoal(GoalId1), SubSeq(events, 1, k)),
                                 events[k])
                    /\ RevisedBy(FoldGoals(<<NewGoal(GoalId1)>>, SubSeq(events, 1, k - 1))[1],
                                 FoldGoals(<<NewGoal(GoalId1)>>, SubSeq(events, 1, k))[1],
                                 events[k])

GoalEnded(fs, id) ==
    \E e \in Range(Stored(fs)) :
        Get(e, "id") = id /\ e.type \in {"goal.achieved", "goal.abandoned"}

\* C16: whenever the log holds a goal.achieved or goal.abandoned record of a goal
\* id, whatever was appended after it, getActiveGoals does not return the id.
C16_AchievedLatch ==
    GoalEnded(files, GoalId1) => GoalId1 \notin IdsOf(getActiveGoalsIn(files, dirOrder))

\* getActiveGoals returned no goal from a log whose goal was abandoned and then
\* set again and reported on.
C16_Witness ==
    /\ ret.op = "getActiveGoals" /\ ret.val = <<>>
    /\ LET log == Stored(files)
       IN  /\ Len(log) = 3
           /\ log[1].type = "goal.abandoned"
           /\ log[2].type = "goal.set"
           /\ log[3].type = "goal.progress"
           /\ Instant(log[1].ts) < Instant(log[2].ts)

-----------------------------------------------------------------------------
(* SpecWeek: the weekly summary over records dated around the two ends of    *)
(* the trailing week                                                         *)

HalfHoursInDay == 24 * 2
EightDaysAgo == [timestamp |-> Stamp(StartOfClock - 8 * HalfHoursInDay, "Z")]
Yesterday == [timestamp |-> Stamp(StartOfClock - HalfHoursInDay, "Z")]
Tomorrow == [timestamp |-> Stamp(StartOfClock + HalfHoursInDay, "Z")]
\* Half an hour before the week began, written with an offset of one hour.
JustBeforeTheWeek ==
    [timestamp |-> Stamp(StartOfClock - HalfHoursInWeek + 1, "+01:00")]

\* The logEvent calls: kind, payload, options.
WeekCalls ==
    {<<"exercise.completed", [activity |-> "run"], EightDaysAgo>>,
     <<"exercise.completed", [activity |-> "run"], Yesterday>>,
     <<"exercise.completed", [activity |-> "run"], JustBeforeTheWeek>>,
     <<"exercise.completed", [activity |-> "run"], Tomorrow>>,
     <<"work.logged", [duration_min |-> 30], Yesterday>>,
     <<"work.logged", [duration_min |-> 60], Tomorrow>>,
     <<"work.stopped", [project |-> "p"], Yesterday>>,
     <<"work.started", [duration_min |-> 45], Yesterday>>}

NextWeek ==
    \/ Tick
    \/ \E call \in WeekCalls : logEvent(call[1], call[2], call[3])
    \/ GetWeeklySummary

SpecWeek == Init /\ [][NextWeek]_vars

\* The instant of record e lies in the 7 days that end at the instant t.
InTrailingWeek(e, t) == t - HalfHoursInWeek <= Instant(e.ts) /\ Instant(e.ts) <= t

\* The bucket of the summary for records of a kind, <<>> when it has none.
Bucket(summary, kind) ==
    CASE kind = "task.completed" -> summary.tasks_completed
      [] kind = "task.created" -> summary.tasks_created
      [] kind = "meeting.completed" -> summary.meetings
      [] kind = "exercise.completed" -> summary.exercise_sessions
      [] kind = "mental.checkin" -> summary.checkins
      [] OTHER -> <<>>
BucketKinds ==
    {"task.completed", "task.created", "meeting.completed", "exercise.completed",
     "mental.checkin"}

\* The step is a getWeeklySummary call.
SummaryReturns == ret'.op = "getWeeklySummary" /\ now' = now

\* C17: getWeeklySummary counts a record of a counted kind exactly when the
\* instant of its timestamp lies in the 7 days that end at the current time.
C17_TrailingWindow ==
    [][SummaryReturns =>
        \A e \in Range(Stored(files')) :
            e.type \in BucketKinds =>
                Count(Bucket(ret'.val, e.type), e) =
                    IF InTrailingWeek(e, now') THEN Count(Stored(files'), e) ELSE 0]_vars

\* The minutes the records of a sequence stand for: duration_min of a
\* work.logged or work.stopped record that has one, 0 for any other record.
RECURSIVE CompletedMinutes(_)
CompletedMinutes(events) ==
    IF events = <<>> THEN 0
    ELSE CompletedMinutes(Tail(events)) +
         (IF /\ Head(events).type \in {"work.logged", "work.stopped"}
             /\ "duration_min" \in DOMAIN Head(events).data
          THEN Head(events).data.duration_min ELSE 0)

\* C18: in the summary a record is found in a bucket only if the bucket is the
\* one of exactly its kind, and the accumulated work time, in minutes, is the sum
\* of duration_min over the work.logged and work.stopped records of the trailing
\* week (none for a record without duration, or of any other kind).
C18_BucketsAndWorkTime ==
    [][SummaryReturns =>
        /\ \A e \in Range(Stored(files')), k \in BucketKinds :
              Count(Bucket(ret'.val, k), e) > 0 => k = e.type
        /\ ret'.val.work_min =
              CompletedMinutes(SelectSeq(Stored(files'),
                                         LAMBDA e : InTrailingWeek(e, now')))]_vars

-----------------------------------------------------------------------------
(* The watermark and partial batches, under SpecSync *)

\* The well-formed records stored for a service.
StoredFor(fs, service) == SelectSeq(LinesOf(fs, <<service>>), Parses)

\* C19: getLatestSyncTimestamp(service) returns null exactly when no record is
\* stored for the service, and otherwise the instant of a stored record of the
\* service that none is later than; and no step moves the watermark of a
\* service backwards or back to null.
C19_Watermark ==
    [][/\ ret'.op = "getLatestSyncTimestamp" =>
             LET stored == StoredFor(files', ret'.arg)
             IN  IF stored = <<>> THEN ret'.val = "null"
                 ELSE /\ \E e \in Range(stored) : ret'.val = Instant(e.ts)
                      /\ \A e \in Range(stored) : Instant(e.ts) <= ret'.val
       /\ \A service \in Services :
             StoredFor(files, service) # <<>> =>
                 /\ StoredFor(files', service) # <<>>
                 /\ getLatestSyncTimestamp(files', service)
                       >= getLatestSyncTimestamp(files, service)]_vars

\* The watermark was asked for after a run stored the later of two activities
\* before the earlier one: it is the instant of the later one.
C19_Witness ==
    /\ ret.op = "getLatestSyncTimestamp"
    /\ Len(StoredFor(files, "strava")) = 2
    /\ Instant(StoredFor(files, "strava")[2].ts) < Instant(StoredFor(files, "strava")[1].ts)
    /\ ret.val = Instant(StoredFor(files, "strava")[1].ts)

\* What the API returns of a batch to a run that starts from the files fs: all
\* of it before anything is stored, then the activities not older than the
\* watermark.
OfferedAgain(fs, batch) ==
    IF StoredFor(fs, "strava") = <<>> THEN batch
    ELSE SelectSeq(batch, LAMBDA a : Instant(a.start_date)
                                        >= getLatestSyncTimestamp(fs, "strava"))

\* The number of stored Strava records that carry the external id.
StoredWithId(fs, id) ==
    Cardinality({i \in 1..Len(StoredFor(fs, "strava")) :
                    Get(StoredFor(fs, "strava")[i].data, "strava_id") = id})

\* C20: when a sync run was rejected with records of its batch stored, and the
\* same sync is run again and ends well, every external id of the batch is
\* stored exactly once.
C20_RerunCompletesBatch ==
    [][(/\ ret.op = "stravaSync" /\ ret.rejected
        /\ \E i \in 1..Len(ret.arg) : StoredWithId(files, ret.arg[i].id) >= 1
        /\ ret'.op = "stravaSync" /\ ~ret'.rejected
        /\ ret'.arg = OfferedAgain(files, ret.arg))
          => \A i \in 1..Len(ret.arg) : StoredWithId(files', ret.arg[i].id) = 1]_vars

-----------------------------------------------------------------------------
(* SpecExists: eventExists over records that carry the same external id in   *)
(* events/ and under more than one service                                   *)

\* Records that carry a Strava id, whatever the service that stores them.
WithStravaId ==
    {createSyncedEvent("exercise.completed", [strava_id |-> x],
                       Stamp(StartOfClock, "Z"), "strava") : x \in ExternalIds}

\* The payload of an exercise logged by hand that names its Strava activity.
ManualExercise == [activity |-> "run", strava_id |-> "a"]

NextExists ==
    \/ Tick
    \/ \E service \in Services, e \in WithStravaId : WriteSyncedEvent(service, e)
    \/ logEvent("exercise.completed", ManualExercise, NoFilters)
    \/ \E service \in Services, x \in ExternalIds : EventExists(service, "strava_id", x)

SpecExists == Init /\ [][NextExists]_vars

\* Some line of synced/<service>/ is a record whose payload field f equals x.
StoredUnder(fs, service, f, x) ==
    \E m \in Months : \E i \in 1..Len(fs[service][m]) :
        /\ Parses(fs[service][m][i])
        /\ Get(fs[service][m][i].data, f) = x

\* C21: eventExists(S, f, x) returns true exactly when a record stored under
\* synced/S has payload field f equal to x, and it is true right after a
\* writeSyncedEvent(S, e) that succeeded, for every payload field of e.
C21_ExistsIffStoredUnderService ==
    [][/\ ret'.op = "eventExists" =>
            ret'.val = StoredUnder(files', ret'.arg[1], ret'.arg[2], ret'.arg[3])
       /\ (ret'.op = "writeSyncedEvent" /\ ~ret'.rejected) =>
            \A f \in DOMAIN ret'.arg[2].data :
                eventExists(files', ret'.arg[1], f, ret'.arg[2].data[f])]_vars

\* eventExists answered false for a Strava id that a Fitbit record and a record
\* of events/ carry, while synced/strava holds a record with another id.
C21_Witness ==
    /\ ret.op = "eventExists" /\ ret.arg = <<"strava", "strava_id", "a">>
    /\ ret.val = FALSE
    /\ StoredUnder(files, "fitbit", "strava_id", "a")
    /\ StoredUnder(files, EVENTS_DIR, "strava_id", "a")
    /\ StoredUnder(files, "strava", "strava_id", "b")

-----------------------------------------------------------------------------
(* Under SpecId: the creation records of an entity                           *)

\* The kinds that create an entity.
CreationKinds == {"task.created", "goal.set"}

\* The stored records of a creation kind that carry the id.
CreationsOf(fs, id) ==
    {i \in 1..Len(Stored(fs)) :
        Stored(fs)[i].type \in CreationKinds /\ Get(Stored(fs)[i], "id") = id}

\* C22: in every reachable log, at most one record of a creation kind
\* (task.created, goal.set) carries any given entity id.
C22_OneCreationPerEntity ==
    \A id \in {TaskId1, TaskId2, GoalId1, GoalId2} : Cardinality(CreationsOf(files, id)) <= 1

-----------------------------------------------------------------------------
(* SpecUnknown: the derived views asked about ids the log may not know       *)

\* The logEvent calls: a goal, a task, a record whose kind only begins like a
\* goal kind, and a record without id.
UnknownCalls ==
    {<<"goal.set", [title |-> "G"], [id |-> GoalId1]>>,
     <<"goalx.anything", [title |-> "X"], [id |-> GoalId2]>>,
     <<"task.created", [title |-> "A"], [id |-> TaskId1]>>,
     <<"mental.checkin", [mood |-> "ok"], NoFilters>>}

NextUnknown ==
    \/ Tick
    \/ \E call \in UnknownCalls : logEvent(call[1], call[2], call[3])
    \/ \E id \in {GoalId1, GoalId2} : GetGoalStatus(id)
    \/ GetOpenTasks
    \/ GetActiveGoals

SpecUnknown == Init /\ [][NextUnknown]_vars

\* The value is null.
IsNull(v) == ToString(v) = ToString("null")

\* Some stored record of a goal kind carries the id.
GoalRecordCarries(fs, id) ==
    \E e \in Range(Stored(fs)) : KindMatches(e.type, "goal") /\ Get(e, "id") = id

\* Some stored record carries the id.
RecordCarries(fs, id) == \E e \in Range(Stored(fs)) : Get(e, "id") = id

\* C23: getGoalStatus(id) for an id that no goal record carries returns null
\* without an error, and getOpenTasks and getActiveGoals return no entity whose
\* id no record of the log carries.
C23_UnknownIdIsAbsent ==
    /\ ret.op \in {"getGoalStatus", "getOpenTasks", "getActiveGoals"} => ~ret.rejected
    /\ (ret.op = "getGoalStatus" /\ ~GoalRecordCarries(files, ret.arg)) => IsNull(ret.val)
    /\ ret.op \in {"getOpenTasks", "getActiveGoals"} =>
          \A id \in IdsOf(ret.val) : RecordCarries(files, id)

-----------------------------------------------------------------------------
(* SpecTool: the MCP tools that write, next to a logEvent call of a script   *)

CheckinData == [mood |-> "ok"]

\* The source argument of a log_event call: left out, empty, or given.
ToolSources == {Undefined, "", "manual"}

\* A log_event call whose source argument is source.
LogEventWithSource(source) == LogEventTool("mental.checkin", CheckinData, Undefined, source)

NextTool ==
    \/ Tick
    \/ AddTask("A")
    \/ CompleteTask(TaskId1)
    \/ \E source \in ToolSources : LogEventWithSource(source)
    \/ logEvent("mental.checkin", CheckinData, NoFilters)

SpecTool == Init /\ [][NextTool]_vars

\* The step appends lines to files of events/, and each carries the source.
AppendsWithSource(source) ==
    /\ files' # files
    /\ \A m \in Months :
          files'[EVENTS_DIR][m] # files[EVENTS_DIR][m] =>
              /\ Front(files'[EVENTS_DIR][m]) = files[EVENTS_DIR][m]
              /\ Last(files'[EVENTS_DIR][m]).source = source

-----------------------------------------------------------------------------
(* SpecSeed: records of every kind appended to a task after its creation     *)

NoData == [x \in {} |-> ""]
FirstTaskData == [title |-> "A", area |-> "work", due |-> "2026-02-06", priority |-> "high"]
OfTask1 == [id |-> TaskId1]

\* The logEvent calls on the task, each dated by the clock.
SeedCalls ==
    {<<"task.created", FirstTaskData, OfTask1>>,
     <<"task.created", [title |-> "B"], OfTask1>>,
     <<"task.updated", [title |-> "C", priority |-> "low"], OfTask1>>,
     <<"task.completed", NoData, OfTask1>>}

NextSeed ==
    \/ Tick
    \/ \E call \in SeedCalls : logEvent(call[1], call[2], call[3])
    \/ GetOpenTasks

SpecSeed == Init /\ [][NextSeed]_vars

\* The fields of a task view that its creation record seeds.
SeededFields == {"title", "area", "due", "priority", "created"}

\* C25: once getOpenTasks reports a task, a record appended later, of whatever
\* kind, changes none of the title, area, due, priority and created values that
\* getOpenTasks reports for it.
C25_SeededFieldsFrozen ==
    [][\A t \in Range(getOpenTasksIn(files, dirOrder)),
          u \in Range(getOpenTasksIn(files', dirOrder')) :
            (files' # files /\ t.id = u.id) => \A f \in SeededFields : t[f] = u[f]]_vars

-----------------------------------------------------------------------------
(* SpecJson: reads of a log in which a line is valid JSON but not a record   *)

\* An object without kind.
Kindless == [ts |-> Stamp(StartOfClock, "Z"), source |-> "manual", data |-> [note |-> "x"]]

\* The events/2026-01.jsonl files a run may start from, edited by hand.
JsonFiles == {<<JsonNull>>, <<Kindless>>}

InitJson ==
    /\ \E lines \in JsonFiles :
          files = [EmptyFiles EXCEPT ![EVENTS_DIR]["2026-01"] = lines]
    /\ dirOrder = <<>>
    /\ now = StartOfClock
    /\ tz \in {0, OneHour}
    /\ env = Deployed
    /\ ret = Fulfilled("none", <<>>, Undefined)
    /\ calls = [c \in Clients |-> Idle]

JsonFilters == {NoFilters, [eventType |-> "task"], [source |-> "manual"]}

NextJson ==
    \/ Tick
    \/ logEvent("task.created", FirstTaskData, OfTask1)
    \/ \E filters \in JsonFilters : ReadEvents(filters)
    \/ GetOpenTasks
    \/ GetActiveGoals

SpecJson == InitJson /\ [][NextJson]_vars

\* The line is a record: an object with a timestamp and a kind.
IsRecord(line) == Parses(line) /\ IsObject(line) /\ {"ts", "type"} \subseteq DOMAIN line

\* C26: whatever valid JSON a line of the log holds, readEvents, getOpenTasks
\* and getActiveGoals raise no error, readEvents returns every record that
\* satisfies its filters and getOpenTasks every task that was created.
C26_NoLineBreaksRead ==
    ret.op \in {"readEvents", "getOpenTasks", "getActiveGoals"} =>
        /\ ~ret.rejected
        /\ ret.op = "readEvents" =>
              \A e \in Range(LinesOf(files, <<EVENTS_DIR>>)) :
                  (IsRecord(e) /\ PassesFilters(e, ret.arg)) => e \in Range(ret.val)
        /\ ret.op = "getOpenTasks" =>
              \A e \in Range(LinesOf(files, <<EVENTS_DIR>>)) :
                  IsRecord(e) => e.id \in IdsOf(ret.val)

-----------------------------------------------------------------------------
(* Under SpecTask: the same records stored in another place or order         *)

RECURSIVE Reverse(_)
Reverse(s) == IF s = <<>> THEN <<>> ELSE Append(Reverse(Tail(s)), Head(s))

\* The log with the lines of every file in the opposite order.
LinesReversed(fs) == [d \in Dirs |-> [m \in Months |-> Reverse(fs[d][m])]]

\* The log with the lines of events/ stored under synced/fitbit instead, month
\* by month.
MovedToService(fs) ==
    [d \in Dirs |-> [m \in Months |->
        CASE d = EVENTS_DIR -> <<>>
          [] d = "fitbit" -> fs["fitbit"][m] \o fs[EVENTS_DIR][m]
          [] OTHER -> fs[d][m]]]

\* Logs that hold the records of fs with the same timestamps, stored otherwise.
Rearrangements(fs) == {LinesReversed(fs), MovedToService(fs), LinesReversed(MovedToService(fs))}

\* C27: getOpenTasks and getActiveGoals return the same entities on every log
\* that holds the same records with the same timestamps, whatever the directory
\* and file of a record and the order of the lines inside the files.
C27_StorageIndependent ==
    \A fs \in Rearrangements(files) :
        /\ Range(getOpenTasksIn(fs, <<"strava", "fitbit">>)) = Range(getOpenTasksIn(files, dirOrder))
        /\ Range(getActiveGoalsIn(fs, <<"strava", "fitbit">>)) = Range(getActiveGoalsIn(files, dirOrder))

-----------------------------------------------------------------------------
(* SpecFilter: readEvents with each filter, over records whose timestamps    *)
(* carry different offsets                                                   *)

ElevenPmZ == Stamp(StartOfClock, "Z")
MidnightZ == Stamp(StartOfClock + OneHour, "Z")
\* 23:30 at +01:00: the instant 22:30Z, half an hour before ElevenPmZ.
HalfPastElevenPlusOne == Stamp(StartOfClock + 1, "+01:00")

\* The logEvent calls: kind, payload, options.
FilterCalls ==
    {<<"task.created", [title |-> "A"], [id |-> TaskId1, timestamp |-> ElevenPmZ]>>,
     <<"task.completed", NoData, [id |-> TaskId1, timestamp |-> HalfPastElevenPlusOne]>>,
     <<"mental.checkin", CheckinData, [source |-> "claude"]>>}

\* The filters of the reads: each predicate alone, and two together.
FilterSets ==
    {[eventType |-> "task"],
     [startDate |-> ElevenPmZ],
     [startDate |-> ElevenPmZ, endDate |-> MidnightZ],
     [source |-> "claude"],
     [id |-> TaskId1],
     [eventType |-> "task", endDate |-> ElevenPmZ]}

NextFilter ==
    \/ Tick
    \/ \E call \in FilterCalls : logEvent(call[1], call[2], call[3])
    \/ WriteSyncedEvent("fitbit", FitbitEvent)
    \/ \E filters \in FilterSets : ReadEvents(filters)

SpecFilter == Init /\ [][NextFilter]_vars

\* The record satisfies every predicate given in the filters: kind prefix, start
\* and end of the time range (both included), source, entity id.
Satisfies(e, filters) ==
    /\ "eventType" \in DOMAIN filters => KindMatches(e.type, filters.eventType)
    /\ "startDate" \in DOMAIN filters => Instant(filters.startDate) <= Instant(e.ts)
    /\ "endDate" \in DOMAIN filters => Instant(e.ts) <= Instant(filters.endDate)
    /\ "source" \in DOMAIN filters => e.source = filters.source
    /\ "id" \in DOMAIN filters => Get(e, "id") = filters.id

\* C28: readEvents(F) returns the records of the unfiltered readEvents() that
\* satisfy every predicate given in F, in the same relative order.
C28_FilterIsRestriction ==
    ret.op = "readEvents" =>
        /\ ~ret.rejected
        /\ ret.val = SelectSeq(readEvents(NoFilters), LAMBDA e : Satisfies(e, ret.arg))

-----------------------------------------------------------------------------
(* Under SpecSync: a batch against its records merged one at a time          *)

\* The files after the activities are merged one at a time, each with its own
\* eventExists check followed at once by its own writeSyncedEvent.
RECURSIVE MergeOneByOne(_, _)
MergeOneByOne(fs, activities) ==
    IF activities = <<>> THEN fs
    ELSE LET a == Head(activities)
             merged == IF eventExists(fs, "strava", "strava_id", a.id) THEN fs
                       ELSE writeSyncedEvent(fs, "strava", activityToEvent(a))
         IN  MergeOneByOne(merged, Tail(activities))

\* C29: a sync run that ends well stores the same records as the merge of its
\* activities one at a time; a batch that holds an external id twice stores it
\* once.
C29_BatchIsRepeatedSingleMerge ==
    [][(ret'.op = "stravaSync" /\ ~ret'.rejected)
          => files' = MergeOneByOne(files, ret'.arg)]_vars

-----------------------------------------------------------------------------
(* SpecConc: two processes on the same log, each running Strava syncs and    *)
(* add_task calls, interleaved at their awaits                               *)

\* What the API returns to one run: one activity, the earlier or the later one.
OfferedOne ==
    {<<[id |-> "a", start_date |-> ElevenPmZ]>>, <<[id |-> "b", start_date |-> MidnightZ]>>}

NextConc ==
    \/ Tick
    \/ \E c \in Clients, activities \in OfferedOne : StravaSyncCheck(c, activities)
    \/ \E c \in Clients : StravaSyncWrite(c)
    \/ \E c \in Clients : AddTaskGenerateId(c, "A")
    \/ \E c \in Clients : AddTaskLogEvent(c)

SpecConc == Init /\ [][NextConc]_vars

\* The lines of the step's new state that its old state did not hold, file by
\* file, when every file kept the lines it held.
RECURSIVE Appended(_, _, _)
Appended(before, after, dirs) ==
    IF dirs = <<>> THEN <<>>
    ELSE LET d == Head(dirs)
             New(m) == SubSeq(after[d][m], Len(before[d][m]) + 1, Len(after[d][m]))
         IN  New("2026-01") \o New("2026-02") \o Appended(before, after, Tail(dirs))

\* No file loses or alters a line in the step.
KeepsEveryLine == \A d \in Dirs, m \in Months : IsPrefix(files[d][m], files'[d][m])

\* Process c ends a call well in the step, and the step appends the lines.
EndsWellWith(c, pc, lines) ==
    (calls[c].pc = pc /\ calls'[c].pc = "idle" /\ ~ret'.rejected)
        => \A line \in Range(lines) :
              Count(Appended(files, files', <<EVENTS_DIR, "strava">>), line) = Count(lines, line)

-----------------------------------------------------------------------------
(* Under SpecId: a task from add_task to complete_task                       *)

\* The record at position i of the log was stored by an add_task call for the
\* title.
StoredByAddTask(log, i, title) ==
    /\ log[i].type = "task.created" /\ log[i].source = "claude"
    /\ Get(log[i].data, "title") = title

\* A complete_task record of the id is stored after position i of the log.
CompletedAfter(log, i, id) ==
    \E j \in (i + 1)..Len(log) : log[j].type = "task.completed" /\ Get(log[j], "id") = id

\* C31: at every point after add_task stored a task, getOpenTasks holds a task
\* with its id and the given title as long as no complete_task record of the id
\* was logged after it, and does not hold the id once one was.
C31_OpenFromAddUntilComplete ==
    LET log == Stored(files)
    IN  \A i \in 1..Len(log) :
            StoredByAddTask(log, i, "A") =>
                IF CompletedAfter(log, i, log[i].id)
                THEN log[i].id \notin IdsOf(getOpenTasks)
                ELSE \E t \in Range(getOpenTasks) : t.id = log[i].id /\ t.title = "A"

-----------------------------------------------------------------------------
(* Under SpecId: the sequence numbers                                        *)

\* The identifiers of the log that begin with p, each counted once.
DistinctIds(fs, p) ==
    {Get(e, "id") : e \in {s \in Range(Stored(fs)) :
                              Get(s, "id") # Undefined /\ StartsWith(Get(s, "id"), p)}}

\* The number after n, written with three digits.
NextNumber(n) == padStart(ToString(n + 1), 3, "0")

\* The step is a call of op that returns.
CallReturns(op) == ret'.op = op /\ now' = now /\ files' = files

-----------------------------------------------------------------------------
(* Under SpecWrite: the file of a record                                     *)

\* The YYYY-MM that the text of a timestamp begins with.
YearMonthWritten(ts) == YearMonth(ts.clock)

\* C33: every record logEvent or writeSyncedEvent appended is in the file named
\* after the year and month of its own stored timestamp, near a month boundary
\* and in a process whose timezone is not UTC as well.
C33_FileOfOwnTimestamp ==
    \A d \in Dirs, m \in Months :
        \A i \in 1..Len(files[d][m]) : YearMonthWritten(files[d][m][i].ts) = m

-----------------------------------------------------------------------------
(* SpecEnv: the merge writer and the reader in every environment: LIFE_DIR   *)
(* set or not, started in the repository root or elsewhere                   *)

Envs == [LIFE_DIR : {Undefined, ModuleRoot}, cwd : {ModuleRoot, Elsewhere}]

InitEnv ==
    /\ files = EmptyFiles
    /\ dirOrder = <<>>
    /\ now = StartOfClock
    /\ tz \in {0, OneHour}
    /\ env \in Envs
    /\ ret = Fulfilled("none", <<>>, Undefined)
    /\ calls = [c \in Clients |-> Idle]

NextEnv ==
    \/ Tick
    \/ \E service \in Services, e \in WithStravaId : WriteSyncedEvent(service, e)
    \/ logEvent("exercise.completed", ManualExercise, NoFilters)
    \/ ReadEvents(NoFilters)
    \/ \E service \in Services : EventExists(service, "strava_id", "a")

SpecEnv == InitEnv /\ [][NextEnv]_vars

\* C34: in every environment, with LIFE_DIR set or not, an unfiltered
\* readEvents returns every record writeSyncedEvent stored before it: the
\* synced/ the writer resolves is the one the reader scans.
C34_WriterAndReaderShareRoot ==
    (ret.op = "readEvents" /\ ret.arg = NoFilters) =>
        \A service \in Services, m \in Months :
            Range(files[syncDir(service)][m]) \subseteq Range(ret.val)

-----------------------------------------------------------------------------
(* Under SpecGoal: the goals that were never set                             *)

\* The log holds a goal.set record of the id.
WasSet(fs, id) == \E e \in Range(Stored(fs)) : e.type = "goal.set" /\ Get(e, "id") = id

\* C35: getActiveGoals returns a goal only if the log holds a goal.set record of
\* its id; goal.progress, goal.revised and other goal records of an id that was
\* never set create no entry.
C35_OnlySetGoalsListed ==
    ret.op = "getActiveGoals" => \A g \in Range(ret.val) : WasSet(files, g.id)

-----------------------------------------------------------------------------
(* SpecFrame: every read-only operation between writes, in every environment *)

NextFrame ==
    \/ Tick
    \/ logEvent("task.created", [title |-> "A"], TaskOptions)
    \/ logEvent("goal.set", [title |-> "G"], GoalOptions)
    \/ WriteSyncedEvent("fitbit", FitbitEvent)
    \/ ReadEvents([eventType |-> "task"])
    \/ QueryEvents([source |-> "fitbit"])
    \/ GetOpenTasks
    \/ GetGoalStatus(GoalId1)
    \/ GetActiveGoals
    \/ GetWeeklySummary
    \/ GenerateId("t")
    \/ GenerateGoalId
    \/ \E source \in Services : ReadSyncedEvents(source)
    \/ EventExists("strava", "strava_id", "a")
    \/ GetLatestSyncTimestamp("strava")

SpecFrame == InitEnv /\ [][NextFrame]_vars

ReadOnly ==
    {"readEvents", "queryEvents", "getOpenTasks", "getGoalStatus", "getActiveGoals",
     "getWeeklySummary", "generateId", "generateGoalId", "readSyncedEvents", "eventExists",
     "getLatestSyncTimestamp"}

\* C36: a step that ends with the result of readEvents, queryEvents,
\* getOpenTasks, getGoalStatus, getActiveGoals, getWeeklySummary, generateId,
\* generateGoalId, readSyncedEvents, eventExists or getLatestSyncTimestamp leaves
\* every log file and every directory as it was and creates none.
C36_QueriesLeaveLog ==
    [][ret'.op \in ReadOnly => (files' = files /\ dirOrder' = dirOrder)]_vars

\* The Strava records were asked for while synced/ held the directory of Fitbit
\* only and events/ held records: no directory was made for Strava.
C36_Witness ==
    /\ ret.op = "readSyncedEvents"
    /\ ret.arg = "strava" /\ ret.val = <<>>
    /\ dirOrder = <<"fitbit">>
    /\ ~MayBeMissing(files, EVENTS_DIR)

-----------------------------------------------------------------------------
(* SpecInert: records the derivations do not recognise, appended to a log    *)
(* with a task and a goal                                                    *)

\* The options of a record of the entity, dated by the caller: at 23:00Z, half an
\* hour before, an hour after.
DatedAtStart(id) == [id |-> id, timestamp |-> Stamp(StartOfClock, "Z")]
DatedEarlier(id) == [id |-> id, timestamp |-> Stamp(StartOfClock - 1, "Z")]
DatedLater(id) == [id |-> id, timestamp |-> Stamp(StartOfClock + OneHour, "Z")]

\* The logEvent calls: kind, payload, options.
InertCalls ==
    {<<"task.created", FirstTaskData, DatedAtStart(TaskId1)>>,
     <<"goal.set", GoalSetData, DatedAtStart(GoalId1)>>,
     <<"task.started", NoData, DatedLater(TaskId1)>>,
     <<"task.blocked", [title |-> "B"], DatedEarlier(TaskId1)>>,
     <<"taskx.anything", [title |-> "B"], DatedLater(TaskId1)>>,
     <<"task.created", [title |-> "B"], [timestamp |-> Stamp(StartOfClock + OneHour, "Z")]>>,
     <<"goal.paused", [title |-> "H", status |-> "paused"], DatedLater(GoalId1)>>,
     <<"goal.paused", [title |-> "H"], DatedEarlier(GoalId2)>>}

NextInert ==
    \/ Tick
    \/ \E call \in InertCalls : logEvent(call[1], call[2], call[3])
    \/ GetOpenTasks
    \/ GetActiveGoals

SpecInert == Init /\ [][NextInert]_vars

\* The step appends one record to the log.
AppendsRecord == ret'.op = "logEvent" /\ ~ret'.rejected /\ files' # files

\* The record the step appends.
AppendedRecord == ret'.val

\* The kinds getOpenTasks and getActiveGoals act on.
TaskKinds == {"task.created", "task.completed", "task.abandoned"}
GoalKinds == {"goal.set", "goal.progress", "goal.revised", "goal.achieved", "goal.abandoned"}

\* C37: appending a task.started, task.blocked or unrecognised task record, a
\* task record without id or a record of a kind that is no task kind leaves the
\* result of getOpenTasks as it was, and appending an unrecognised goal record
\* leaves every goal of getActiveGoals in the result with every field as it was.
C37_UnknownKindsAreInert ==
    [][AppendsRecord =>
        LET e == AppendedRecord
        IN  /\ (e.type \notin TaskKinds \/ ~Truthy(Get(e, "id"))) =>
                  getOpenTasksIn(files', dirOrder') = getOpenTasksIn(files, dirOrder)
            /\ (KindMatches(e.type, "goal") /\ e.type \notin GoalKinds) =>
                  \A g \in Range(getActiveGoalsIn(files, dirOrder)) :
                      g \in Range(getActiveGoalsIn(files', dirOrder'))]_vars

\* A task.started record of the open task was appended, dated after its
\* creation, next to an active goal: the task is listed as before.
C37_Witness ==
    /\ ret.op = "logEvent" /\ ~ret.rejected
    /\ ret.arg[1] = "task.started"
    /\ \E t \in Range(getOpenTasks) : t.id = TaskId1 /\ t.title = "A"
    /\ getActiveGoals # <<>>

-----------------------------------------------------------------------------
(* Under SpecGoal: the two goal derivations against each other               *)

\* The entry the loop of getActiveGoals holds for the id before the achieved
\* goals are left out.
FoldedGoal(id) ==
    LET goals == FoldGoals(<<>>, readEvents([eventType |-> "goal"]))
    IN  goals[IndexOf(goals, id)]

ComparedFields == {"title", "target_date", "latest_status", "history", "achieved"}

\* C38: for a goal id that has goal records, getGoalStatus reports the title,
\* target_date, latest_status, history and achieved flag that the fold of
\* getActiveGoals computes for the id; a goal that getActiveGoals leaves out
\* for a goal.abandoned record has achieved = true in getGoalStatus.
C38_StatusAgreesWithActiveFold ==
    (ret.op = "getGoalStatus" /\ GoalRecordCarries(files, ret.arg)) =>
        /\ ~IsNull(ret.val)
        /\ \A f \in ComparedFields : ret.val[f] = FoldedGoal(ret.arg)[f]

-----------------------------------------------------------------------------
(* SpecFitbit: runs of the Fitbit sync script over weight and sleep logs     *)
(* whose log ids may coincide                                                *)

LogIds == {"1", "2"}
\* The local time the logs are dated: 22:00 on 31 January.
LogTimes == {StartOfClock - OneHour}
FitbitLogs == [logId : LogIds, clock : LogTimes]
\* What the API may return of one kind to one run: nothing, or one log.
OfferedLogs == {<<>>} \cup {<<l>> : l \in FitbitLogs}

NextFitbit ==
    \/ Tick
    \/ \E weightLogs \in OfferedLogs, sleepLogs \in OfferedLogs : FitbitSync(weightLogs, sleepLogs)
    \/ \E x \in LogIds : EventExists("fitbit", "fitbit_id", x)
    \/ GetLatestSyncTimestamp("fitbit")

SpecFitbit == Init /\ [][NextFitbit]_vars

\* A stored Fitbit record of the kind represents the log.
Represented(fs, kind, log) ==
    \E e \in Range(StoredFor(fs, "fitbit")) :
        e.type = kind /\ Get(e.data, "fitbit_id") = log.logId

\* C39: after a sync run that completed, every log the run was offered is
\* stored: a weight log as a health.weight record, a sleep log as a
\* health.sleep record, also when a stored record of the other kind has the
\* same log id.
C39_EveryOfferedLogStored ==
    (ret.op = "fitbitSync" /\ ~ret.rejected) =>
        /\ \A w \in Range(ret.arg[1]) : Represented(files, "health.weight", w)
        /\ \A s \in Range(ret.arg[2]) : Represented(files, "health.sleep", s)
====
